---- MODULE Spec2Model ----
(***************************************************************************)
(* Order intake, execution and portfolio settlement of the trading router  *)
(* (routers/trading.py), and start/stop of the simulated bot               *)
(* (routers/bots.py), over the tables of models.py.                        *)
(*                                                                         *)
(* Amounts and balances are counted in hundredths (the bot's default       *)
(* amount 0.01 is 1); prices are whole numbers.  A symbol is the sequence  *)
(* of its tokens, so that splitting it on "/" is computed.  An optional    *)
(* value (None or a value) is the empty or the one-element sequence.       *)
(***************************************************************************)
EXTENDS Integers, Sequences, FiniteSets, TLC

VARIABLES market, trades, portfolio, bots, inflight, sched, running, started, resp

vars == <<market, trades, portfolio, bots, inflight, sched, running, started, resp>>

(* ------------------------------ bounds -------------------------------- *)
\* rows of the trades table
MaxTrades == 2
\* start calls of one bot that return success
MaxStarts == 2

(* ------------------------------ values -------------------------------- *)
None == <<>>
Some(x) == <<x>>

BTC_USD == <<"BTC", "/", "USD">>
ETH_BTC == <<"ETH", "/", "BTC">>
BTCUSD == <<"BTCUSD">>
XRP_USD == <<"XRP", "/", "USD">>

Users == {1, 2}
BotIds == {1}
NoBot == 0

\* the fields of a request body (TradeCreate)
Symbols == {BTC_USD, ETH_BTC, BTCUSD, XRP_USD}
Sides == {"buy", "sell", "hold"}
OrderTypes == {"market", "limit", "stop"}
Amounts == {2}
ReqPrices == {None, Some(0), Some(5)}
Orders == [symbol : Symbols, side : Sides, order_type : OrderTypes,
           amount : Amounts, price : ReqPrices]

\* the rows the markets table may be seeded with; no handler writes it
MarketRow(sym, p) == [symbol |-> sym, price |-> p]
MarketTables == { {MarketRow(BTC_USD, 3), MarketRow(ETH_BTC, 2), MarketRow(BTCUSD, 3)} }

(* ------------------------- trading.py helpers ------------------------- *)
\* Python truthiness of Optional[float]: None and 0.0 are both falsy
Falsy(p) == p = None \/ p[1] = 0

\* the checks of create_order before the market look-up, in order
ValidationError(o) ==
    IF o.side \notin {"buy", "sell"} THEN <<"Side must be 'buy' or 'sell'">>
    ELSE IF o.order_type \notin {"market", "limit"}
         THEN <<"Order type must be 'market' or 'limit'">>
    ELSE IF o.order_type = "limit" /\ Falsy(o.price)
         THEN <<"Price is required for limit orders">>
    ELSE <<>>

\* db.query(Market).filter(Market.symbol == symbol).first(); symbol is unique
FindMarket(sym) == {m \in market : m.symbol = sym}
MarketPrice(sym) == (CHOOSE m \in market : m.symbol = sym).price

MarketNotFound(sym) == <<"Market">> \o sym \o <<"not found">>

\* the detail of the 400 answer of create_order, <<>> when it accepts
RejectDetail(o) ==
    IF ValidationError(o) # <<>> THEN ValidationError(o)
    ELSE IF FindMarket(o.symbol) = {} THEN MarketNotFound(o.symbol)
    ELSE <<>>

\* a fill at the price of the request whenever it carries one
FillPriceOfRequest(o, mprice) == IF o.price # None THEN o.price ELSE Some(mprice)

\* price = trade.price if trade.order_type == "limit" else market.price
FillPrice(o, mprice) == IF o.order_type = "limit" THEN o.price ELSE Some(mprice)

\* a market order inserted as already filled
InitialStatusFilled(o) == IF o.order_type = "market" THEN "filled" ELSE "open"

\* status="open", line 85
InitialStatus(o) == "open"

NewTrade(u, o) ==
    [user |-> u, symbol |-> o.symbol, side |-> o.side, order_type |-> o.order_type,
     amount |-> o.amount, price |-> FillPrice(o, MarketPrice(o.symbol)),
     status |-> InitialStatus(o), executed |-> FALSE, bot |-> NoBot]

\* an intake that forgets the price check of line 61
TradesAfterIntakeNoPriceCheck(u, o) ==
    IF o.side \notin {"buy", "sell"} \/ o.order_type \notin {"market", "limit"}
       \/ FindMarket(o.symbol) = {}
    THEN trades
    ELSE Append(trades, NewTrade(u, o))

\* the trades table after lines 48-91 of create_order
TradesAfterIntake(u, o) ==
    IF RejectDetail(o) # <<>> THEN trades ELSE Append(trades, NewTrade(u, o))

\* str.split("/"), over the tokens of a symbol
RECURSIVE SplitFrom(_, _, _)
SplitFrom(s, i, cur) ==
    IF i > Len(s) THEN <<cur>>
    ELSE IF s[i] = "/" THEN <<cur>> \o SplitFrom(s, i + 1, <<>>)
    ELSE SplitFrom(s, i + 1, Append(cur, s[i]))
Split(s) == SplitFrom(s, 1, <<>>)

\* the rows db.query(Portfolio).filter(user_id == u, asset == a) matches
PortfolioRows(u, a) ==
    {i \in 1..Len(portfolio) : portfolio[i].user = u /\ portfolio[i].asset = a}

\* the signed change of the base and of the quote balance of a fill
BaseDelta(side, amount) == IF side = "buy" THEN amount ELSE 0 - amount
\* a sell that debits the quote balance as a buy does
QuoteDeltaAlwaysDebit(side, amount, price) == 0 - amount * price

QuoteDelta(side, amount, price) ==
    IF side = "buy" THEN 0 - amount * price ELSE amount * price

Response(op, code, detail, success, status) ==
    [op |-> op, code |-> code, detail |-> detail, success |-> success, status |-> status]

(* --------------------------- bots.py helpers -------------------------- *)
\* a value of the "amount" key: a JSON number, or a text float() cannot parse
Number(n) == [kind |-> "number", val |-> n]
Text == [kind |-> "text", val |-> 0]

\* json.loads(bot.config): a mapping with optional keys, or another JSON value
Config(sym, side, amount) ==
    [isdict |-> TRUE, symbol |-> sym, side |-> side, amount |-> amount]
NotADict == [isdict |-> FALSE, symbol |-> None, side |-> None, amount |-> None]
BotConfigs == { Config(None, None, None),
                Config(Some(XRP_USD), Some("sell"), Some(Number(2))),
                Config(None, Some("hold"), None),
                Config(None, None, Some(Text)),
                NotADict }

\* dict.get(key, default)
Get(field, default) == IF field = None THEN default ELSE field[1]

DefaultSymbol == BTC_USD
DefaultSide == "buy"
DefaultAmount == 1

\* lines 51-54 of run_bot_task raise: .get on a non-mapping, float() of a text
ConfigRaises(cfg) ==
    \/ ~cfg.isdict
    \/ Get(cfg.amount, Number(DefaultAmount)).kind # "number"

ConfigSymbol(cfg) == Get(cfg.symbol, DefaultSymbol)
ConfigSide(cfg) == Get(cfg.side, DefaultSide)
ConfigAmount(cfg) == Get(cfg.amount, Number(DefaultAmount)).val

\* a bot trade inserted as an open order at no price
BotTradeOpen(b) ==
    [user |-> bots[b].owner, symbol |-> ConfigSymbol(bots[b].config),
     side |-> ConfigSide(bots[b].config), order_type |-> "market",
     amount |-> ConfigAmount(bots[b].config), price |-> None,
     status |-> "open", executed |-> FALSE, bot |-> b]

\* the Trade of lines 60-70 of run_bot_task
BotTrade(b) ==
    [user |-> bots[b].owner, symbol |-> ConfigSymbol(bots[b].config),
     side |-> ConfigSide(bots[b].config), order_type |-> "market",
     amount |-> ConfigAmount(bots[b].config),
     price |-> Some(MarketPrice(ConfigSymbol(bots[b].config))),
     status |-> "filled", executed |-> TRUE, bot |-> b]

\* the balances after run_bot_task has inserted its trade: it writes none
PortfolioAfterBotTrade(b) == portfolio

\* a start that skips the check of line 151
TasksAddedAlways(status) == 1

\* the number of background tasks start_bot adds for a bot in this status
TasksAdded(status) == IF status = "running" THEN 0 ELSE 1

\* a stop that leaves a bot in error as it is
StatusAfterStopKeepsError(status) == IF status = "running" THEN "stopped" ELSE status

\* the status stop_bot leaves, line 183
StatusAfterStop(status) == "stopped"

\* a handler that swallows the exception and leaves the status as it is
StatusAfterRaiseKept(status) == status

\* the status the except branch of run_bot_task commits, lines 73-76
StatusAfterRaise(status) == "error"

(* ------------------------------ state --------------------------------- *)
Init ==
    /\ market \in MarketTables
    /\ trades = <<>>
    /\ portfolio = <<>>
    /\ bots \in [BotIds -> [owner : {2}, config : BotConfigs, status : {"stopped"}]]
    /\ inflight = {}
    /\ sched = [b \in BotIds |-> 0]
    /\ running = [b \in BotIds |-> 0]
    /\ started = [b \in BotIds |-> 0]
    /\ resp = Response("none", 0, <<>>, FALSE, "")

(* --------------------------- create_order ----------------------------- *)
\* a request between its two commits: the session's view of its trade row
\* and of the two portfolio rows it has queried (row 0: none found)
Request(tid) ==
    [tid |-> tid, pc |-> "inserted", base |-> 0, quote |-> 0, baseBal |-> 0, quoteBal |-> 0]

\* lines 47-91: validation, market look-up, insert with status "open", commit;
\* a limit order returns here (line 132)
CreateOrderInsert(u, o) ==
    /\ trades' = TradesAfterIntake(u, o)
    /\ resp' = IF RejectDetail(o) # <<>>
               THEN Response("create_order", 400, RejectDetail(o), FALSE, "")
               ELSE IF o.order_type = "market" THEN resp
               ELSE Response("create_order", 201, <<>>, TRUE, "open")
    /\ inflight' = IF RejectDetail(o) = <<>> /\ o.order_type = "market"
                   THEN inflight \cup {Request(Len(trades) + 1)}
                   ELSE inflight
    /\ UNCHANGED <<market, portfolio, bots, sched, running, started>>

CreateOrderIntake(u, o) == Len(trades) < MaxTrades /\ CreateOrderInsert(u, o)

\* .first() of a query without ORDER BY: any matching row, 0 when there is none
FirstRow(u, a) == IF PortfolioRows(u, a) = {} THEN {0} ELSE PortfolioRows(u, a)
BalanceRead(i) == IF i = 0 THEN 0 ELSE portfolio[i].balance

\* lines 94-120: the symbol is split and the two portfolio rows are read;
\* the unpacking of line 100 raises unless the split has two parts, the
\* request ends with a server error and the uncommitted status is dropped
CreateOrderRead(r) ==
    /\ r \in inflight /\ r.pc = "inserted"
    /\ LET t == trades[r.tid]
           parts == Split(t.symbol)
       IN IF Len(parts) # 2
          THEN /\ inflight' = inflight \ {r}
               /\ resp' = Response("create_order", 500, <<"Internal Server Error">>, FALSE, "")
          ELSE /\ \E b \in FirstRow(t.user, parts[1]), q \in FirstRow(t.user, parts[2]) :
                     inflight' = (inflight \ {r}) \cup
                         {[r EXCEPT !.pc = "read", !.base = b, !.quote = q,
                                    !.baseBal = BalanceRead(b), !.quoteBal = BalanceRead(q)]}
               /\ resp' = resp
    /\ UNCHANGED <<market, trades, portfolio, bots, sched, running, started>>

\* lines 96-97
FilledTrade(t) == [t EXCEPT !.status = "filled", !.executed = TRUE]

\* a settlement that adds its deltas to the balances the rows hold at the
\* commit, not to the balances it had read
PortfolioAfterSettleIncrement(r) ==
    LET t == trades[r.tid]
        parts == Split(t.symbol)
        dBase == BaseDelta(t.side, t.amount)
        dQuote == QuoteDelta(t.side, t.amount, t.price[1])
        updated == [i \in 1..Len(portfolio) |->
                      IF i = r.base THEN [portfolio[i] EXCEPT !.balance = @ + dBase]
                      ELSE IF i = r.quote THEN [portfolio[i] EXCEPT !.balance = @ + dQuote]
                      ELSE portfolio[i]]
        baseNew == IF r.base = 0
                   THEN <<[user |-> t.user, asset |-> parts[1], balance |-> dBase]>>
                   ELSE <<>>
        quoteNew == IF r.quote = 0
                    THEN <<[user |-> t.user, asset |-> parts[2], balance |-> dQuote]>>
                    ELSE <<>>
    IN updated \o baseNew \o quoteNew

\* the portfolio table after the commit of line 130: the rows read are
\* written with the balances computed from what was read, missing rows are
\* inserted, base first
PortfolioAfterSettle(r) ==
    LET t == trades[r.tid]
        parts == Split(t.symbol)
        newBase == r.baseBal + BaseDelta(t.side, t.amount)
        newQuote == r.quoteBal + QuoteDelta(t.side, t.amount, t.price[1])
        updated == [i \in 1..Len(portfolio) |->
                      IF i = r.base THEN [portfolio[i] EXCEPT !.balance = newBase]
                      ELSE IF i = r.quote THEN [portfolio[i] EXCEPT !.balance = newQuote]
                      ELSE portfolio[i]]
        baseNew == IF r.base = 0
                   THEN <<[user |-> t.user, asset |-> parts[1], balance |-> newBase]>>
                   ELSE <<>>
        quoteNew == IF r.quote = 0
                    THEN <<[user |-> t.user, asset |-> parts[2], balance |-> newQuote]>>
                    ELSE <<>>
    IN updated \o baseNew \o quoteNew

\* lines 122-132: the balances are updated and committed with the status
CreateOrderSettle(r) ==
    /\ r \in inflight /\ r.pc = "read"
    /\ trades' = [trades EXCEPT ![r.tid] = FilledTrade(trades[r.tid])]
    /\ portfolio' = PortfolioAfterSettle(r)
    /\ inflight' = inflight \ {r}
    /\ resp' = Response("create_order", 201, <<>>, TRUE, "filled")
    /\ UNCHANGED <<market, bots, sched, running, started>>

(* ------------------------------- bots --------------------------------- *)
NotFound(op) == Response(op, 404, <<"Bot not found">>, FALSE, "")

\* start_bot, lines 143-165
StartBot(u, b) ==
    /\ bots[b].owner = u /\ bots[b].status # "running" => started[b] < MaxStarts
    /\ IF bots[b].owner # u
       THEN /\ resp' = NotFound("start_bot")
            /\ UNCHANGED <<sched, started>>
       ELSE /\ sched' = [sched EXCEPT ![b] = @ + TasksAdded(bots[b].status)]
            /\ started' = [started EXCEPT ![b] = @ + TasksAdded(bots[b].status)]
            /\ resp' = IF bots[b].status = "running"
                       THEN Response("start_bot", 200, <<"Bot is already running">>,
                                     FALSE, bots[b].status)
                       ELSE Response("start_bot", 200, <<"Bot started successfully">>,
                                     TRUE, "starting")
    /\ UNCHANGED <<market, trades, portfolio, bots, inflight, running>>

\* stop_bot, lines 167-190
StopBot(u, b) ==
    /\ IF bots[b].owner # u
       THEN /\ resp' = NotFound("stop_bot")
            /\ bots' = bots
       ELSE IF bots[b].status = "stopped"
       THEN /\ resp' = Response("stop_bot", 200, <<"Bot is already stopped">>,
                                FALSE, bots[b].status)
            /\ bots' = bots
       ELSE /\ resp' = Response("stop_bot", 200, <<"Bot stopped successfully">>,
                                TRUE, "stopped")
            /\ bots' = [bots EXCEPT ![b].status = StatusAfterStop(@)]
    /\ UNCHANGED <<market, trades, portfolio, inflight, sched, running, started>>

\* a task that leaves the status it finds
StatusAfterTaskBeginKept(status) == status

\* the status run_bot_task commits before it trades, lines 46-47
StatusAfterTaskBegin(status) == "running"

\* run_bot_task, lines 40-47: the scheduled task re-reads the bot and commits
\* status "running"
RunBotTaskBegin(b) ==
    /\ sched[b] > 0
    /\ sched' = [sched EXCEPT ![b] = @ - 1]
    /\ running' = [running EXCEPT ![b] = @ + 1]
    /\ bots' = [bots EXCEPT ![b].status = StatusAfterTaskBegin(@)]
    /\ UNCHANGED <<market, trades, portfolio, inflight, started, resp>>

\* run_bot_task, lines 50-77: the configuration is read, the market looked up
\* and one filled trade inserted; any exception sets status "error"
RunBotTaskTrade(b) ==
    /\ running[b] > 0
    /\ running' = [running EXCEPT ![b] = @ - 1]
    /\ IF ConfigRaises(bots[b].config)
       THEN /\ bots' = [bots EXCEPT ![b].status = StatusAfterRaise(@)]
            /\ UNCHANGED <<trades, portfolio>>
       ELSE IF FindMarket(ConfigSymbol(bots[b].config)) # {}
       THEN /\ Len(trades) < MaxTrades
            /\ trades' = Append(trades, BotTrade(b))
            /\ portfolio' = PortfolioAfterBotTrade(b)
            /\ bots' = bots
       ELSE UNCHANGED <<trades, portfolio, bots>>
    /\ UNCHANGED <<market, inflight, sched, started, resp>>

(* --------------------------- specifications --------------------------- *)
BotStep ==
    \/ \E u \in Users, b \in BotIds : StartBot(u, b)
    \/ \E u \in Users, b \in BotIds : StopBot(u, b)
    \/ \E b \in BotIds : RunBotTaskBegin(b)
    \/ \E b \in BotIds : RunBotTaskTrade(b)

\* the whole system: requests are served concurrently, tasks run detached
Next ==
    \/ \E u \in Users, o \in Orders : CreateOrderIntake(u, o)
    \/ \E r \in inflight : CreateOrderRead(r)
    \/ \E r \in inflight : CreateOrderSettle(r)
    \/ BotStep

Spec == Init /\ [][Next]_vars

\* order submissions served one at a time, the bot never started; the
\* requests include market orders of a negative amount
SeqOrders == Orders \cup [symbol : {BTC_USD}, side : {"buy", "sell"},
                          order_type : {"market"}, amount : {-1}, price : {None}]

SeqInit == Init /\ \A b \in BotIds : bots[b].config = Config(None, None, None)

SeqCreateOrderIntake(u, o) == inflight = {} /\ CreateOrderIntake(u, o)

SeqNext ==
    \/ \E u \in Users, o \in SeqOrders : SeqCreateOrderIntake(u, o)
    \/ \E r \in inflight : CreateOrderRead(r)
    \/ \E r \in inflight : CreateOrderSettle(r)

SeqSpec == SeqInit /\ [][SeqNext]_vars

\* the bot, beside market buys of BTC/USD by either user
BuyOrder == [symbol |-> BTC_USD, side |-> "buy", order_type |-> "market",
             amount |-> 2, price |-> None]

BuyOrderIntake(u) == CreateOrderIntake(u, BuyOrder)

BotNext ==
    \/ \E u \in Users : BuyOrderIntake(u)
    \/ \E r \in inflight : CreateOrderRead(r)
    \/ \E r \in inflight : CreateOrderSettle(r)
    \/ BotStep

BotSpec == Init /\ [][BotNext]_vars

\* market orders of one user served concurrently, the bot never started
MaxConcTrades == 3

ConcOrders == [symbol : {BTC_USD, ETH_BTC}, side : {"buy", "sell"},
               order_type : {"market"}, amount : Amounts, price : {None}]

ConcCreateOrderIntake(u, o) ==
    Len(trades) < MaxConcTrades /\ CreateOrderInsert(u, o)

ConcNext ==
    \/ \E u \in Users, o \in ConcOrders : ConcCreateOrderIntake(u, o)
    \/ \E r \in inflight : CreateOrderRead(r)
    \/ \E r \in inflight : CreateOrderSettle(r)

ConcSpec == SeqInit /\ [][ConcNext]_vars

(* ------------------------------ claims -------------------------------- *)
Assets == {<<"BTC">>, <<"USD">>, <<"ETH">>, <<"BTCUSD">>}

\* the rows of a portfolio table that belong to a user
RowsOfUser(pf, u) == {i \in 1..Len(pf) : pf[i].user = u}
RowsOfAsset(pf, u, a) == {i \in RowsOfUser(pf, u) : pf[i].asset = a}

\* the settlement rule as the specification words it: what a filled trade
\* adds to the balance of asset a
SignedDelta(t, a) ==
    LET parts == Split(t.symbol)
        sign == IF t.side = "buy" THEN 1 ELSE -1
    IN IF Len(parts) # 2 THEN 0
       ELSE (IF parts[1] = a THEN sign * t.amount ELSE 0)
          + (IF parts[2] = a THEN 0 - sign * t.amount * t.price[1] ELSE 0)

\* C1: a market order accepted from a user without Portfolio rows leaves that
\* user exactly two rows, base = +A and quote = -A*P for a buy, base = -A and
\* quote = +A*P for a sell, P being the market's price, not the request's.
C1_FirstMarketOrder ==
    [][\A r \in inflight :
          (CreateOrderSettle(r) /\ RowsOfUser(portfolio, trades[r.tid].user) = {}) =>
             LET t == trades[r.tid]
                 u == t.user
                 A == t.amount
                 P == MarketPrice(t.symbol)
                 base == Split(t.symbol)[1]
                 quote == Split(t.symbol)[2]
             IN /\ resp'.code = 201
                /\ Cardinality(RowsOfUser(portfolio', u)) = 2
                /\ \E i, j \in RowsOfUser(portfolio', u) :
                      /\ i # j
                      /\ portfolio'[i].asset = base /\ portfolio'[j].asset = quote
                      /\ t.side = "buy" =>
                           portfolio'[i].balance = A /\ portfolio'[j].balance = 0 - A * P
                      /\ t.side = "sell" =>
                           portfolio'[i].balance = 0 - A /\ portfolio'[j].balance = A * P]_vars

\* a first sell of 2 BTC/USD at the market price 3 has been settled
C1_Witness ==
    /\ resp.code = 201 /\ Len(trades) = 1 /\ trades[1].status = "filled"
    /\ portfolio = <<[user |-> 1, asset |-> <<"BTC">>, balance |-> -2],
                     [user |-> 1, asset |-> <<"USD">>, balance |-> 6]>>

\* the detail is a text that holds the symbol
Names(detail, sym) ==
    \E i \in 1..(Len(detail) - Len(sym) + 1) : SubSeq(detail, i, i + Len(sym) - 1) = sym

\* the submissions C2 is about: those create_order refuses
Refusable(o) ==
    \/ o.order_type = "limit" /\ o.price = None
    \/ \A m \in market : m.symbol # o.symbol
    \/ o.side \notin {"buy", "sell"} \/ o.order_type \notin {"market", "limit"}

\* the symbol is the one reason to refuse o
OnlyUnknown(o) ==
    /\ \A m \in market : m.symbol # o.symbol
    /\ o.side \in {"buy", "sell"}
    /\ o.order_type = "market" \/ (o.order_type = "limit" /\ ~Falsy(o.price))

\* C2: a rejected submission (a limit order without a price, an unknown
\* symbol, a bad side or type) gets a 400, which names the symbol when the
\* symbol is the reason, and creates or changes no Trade and no Portfolio row:
\* no step that does otherwise serves such a submission.
C2_RejectionChangesNothing ==
    [][IF /\ resp'.op = "create_order" /\ resp'.code = 400
          /\ UNCHANGED <<trades, portfolio, inflight>>
       THEN \A o \in SeqOrders :
               (OnlyUnknown(o) /\ ~Names(resp'.detail, o.symbol)) =>
                  \A u \in Users : ~SeqCreateOrderIntake(u, o)
       ELSE \A o \in SeqOrders :
               Refusable(o) => \A u \in Users : ~SeqCreateOrderIntake(u, o)]_vars

\* an unknown symbol has been refused after an order had been stored
C2_Witness ==
    /\ resp.code = 400 /\ Names(resp.detail, XRP_USD)
    /\ Len(trades) = 1 /\ inflight = {}

\* C3: with a Market row for the symbol, a submission is refused exactly when
\* the side or the type is unknown or a limit order carries no price; every
\* other submission, whatever its amount and price, stores a Trade row.
C3_RejectedExactlyWhen ==
    [][\A u \in Users, o \in Orders :
          (CreateOrderIntake(u, o) /\ \E m \in market : m.symbol = o.symbol) =>
             IF \/ o.side \notin {"buy", "sell"}
                \/ o.order_type \notin {"market", "limit"}
                \/ (o.order_type = "limit" /\ o.price = None)
             THEN trades' = trades /\ resp'.code = 400
             ELSE Len(trades') = Len(trades) + 1]_vars

\* the sum of what the filled market orders of user u among the first n
\* trades add to asset a
RECURSIVE FilledSum(_, _, _)
FilledSum(u, a, n) ==
    IF n = 0 THEN 0
    ELSE FilledSum(u, a, n - 1)
         + (IF /\ trades[n].user = u /\ trades[n].bot = NoBot
               /\ trades[n].order_type = "market" /\ trades[n].status = "filled"
            THEN SignedDelta(trades[n], a) ELSE 0)

\* C4: with submissions served one at a time, every balance is the sum of
\* the signed deltas of the user's filled market orders on that asset; equal
\* requests each count, and no sell is refused for a negative balance.
C4_BalanceIsSumOfFills ==
    \A u \in Users, a \in Assets :
        /\ Cardinality(RowsOfAsset(portfolio, u, a)) <= 1
        /\ \A i \in RowsOfAsset(portfolio, u, a) :
              portfolio[i].balance = FilledSum(u, a, Len(trades))
        /\ RowsOfAsset(portfolio, u, a) = {} => FilledSum(u, a, Len(trades)) = 0
        /\ RowsOfAsset(portfolio, u, a) = {} =>
              \A n \in 1..Len(trades) :
                 (trades[n].user = u /\ trades[n].status = "filled"
                  /\ trades[n].bot = NoBot) => SignedDelta(trades[n], a) = 0

\* the same sell has been accepted twice and has driven the base balance
\* to minus twice its amount
C4_Witness ==
    /\ Len(trades) = 2 /\ trades[1] = trades[2]
    /\ trades[1].status = "filled" /\ trades[1].side = "sell" /\ trades[1].amount = 2
    /\ \E i \in RowsOfAsset(portfolio, trades[1].user, <<"BTC">>) :
          portfolio[i].balance = -4
    /\ \E j \in RowsOfAsset(portfolio, trades[1].user, <<"USD">>) :
          portfolio[j].balance = 12

\* a market order submitted by a user whose request is still being served
InFlight(i) == \E r \in inflight : r.tid = i

\* C5: an accepted market order is "filled", with its execution time, once
\* its request has ended, whatever symbol of the Market table it names; a
\* limit order stays "open" at its price; no Trade is "canceled".
C5_Lifecycle ==
    \A i \in 1..Len(trades) :
        LET t == trades[i]
        IN t.bot = NoBot =>
              /\ t.status \in {"open", "filled"}
              /\ t.status = "filled" => t.executed /\ t.order_type = "market"
              /\ t.order_type = "limit" => t.status = "open" /\ t.price # None
              /\ (t.order_type = "market" /\ t.status = "open") => InFlight(i)

\* the owner's balance of an asset in a portfolio table
RECURSIVE BalanceUpTo(_, _, _, _)
BalanceUpTo(pf, u, a, n) ==
    IF n = 0 THEN 0
    ELSE BalanceUpTo(pf, u, a, n - 1)
         + (IF pf[n].user = u /\ pf[n].asset = a THEN pf[n].balance ELSE 0)
Balance(pf, u, a) == BalanceUpTo(pf, u, a, Len(pf))

\* what the specification has the bot task store for bot b
ExpectedBotTrade(b) ==
    LET cfg == bots[b].config
        sym == IF cfg.symbol = None THEN BTC_USD ELSE cfg.symbol[1]
    IN [user |-> bots[b].owner, symbol |-> sym,
        side |-> IF cfg.side = None THEN "buy" ELSE cfg.side[1],
        order_type |-> "market",
        amount |-> IF cfg.amount = None THEN 1 ELSE cfg.amount[1].val,
        price |-> Some(MarketPrice(sym)), status |-> "filled", executed |-> TRUE,
        bot |-> b]

HasMarketRow(b) ==
    LET cfg == bots[b].config
    IN \E m \in market : m.symbol = (IF cfg.symbol = None THEN BTC_USD ELSE cfg.symbol[1])

\* the configuration is a mapping whose amount, if any, is a number
Parses(cfg) == cfg.isdict /\ (cfg.amount = None \/ cfg.amount[1].kind = "number")

\* C6 as claimed: a bot task whose symbol has a Market row (and whose
\* configuration parses) stores one filled market Trade for the owner and
\* settles it on the owner's balances.
C6_BotTradeSettles ==
    [][\A b \in BotIds :
          (RunBotTaskTrade(b) /\ Parses(bots[b].config) /\ HasMarketRow(b)) =>
             LET t == ExpectedBotTrade(b)
             IN /\ trades' = Append(trades, t)
                /\ \A a \in Assets :
                      Balance(portfolio', t.user, a) =
                         Balance(portfolio, t.user, a) + SignedDelta(t, a)]_vars

\* C6 as amended: a bot task whose configuration parses and whose symbol has
\* a Market row stores exactly one Trade (market, filled, the market's price,
\* the owner, this bot) and writes no Portfolio row; otherwise it stores no
\* Trade and writes no Portfolio row.
C6_BotTradeWithoutSettlement ==
    [][\A b \in BotIds :
          RunBotTaskTrade(b) =>
             /\ portfolio' = portfolio
             /\ IF Parses(bots[b].config) /\ HasMarketRow(b)
                THEN trades' = Append(trades, ExpectedBotTrade(b))
                ELSE trades' = trades]_vars

\* the bot has traded for its owner, whose balances a settled order had set
C6_Witness ==
    /\ \E i \in 1..Len(trades) :
          /\ trades[i].bot = 1 /\ trades[i].user = 2 /\ trades[i].status = "filled"
          /\ trades[i].symbol = BTC_USD /\ trades[i].side = "buy"
    /\ Balance(portfolio, 2, <<"BTC">>) = 2
    /\ Balance(portfolio, 2, <<"USD">>) = -6

BotTradeCount(b) == Cardinality({i \in 1..Len(trades) : trades[i].bot = b})

\* C7: a start by the owner of a running bot returns success=false,
\* changes nothing and schedules nothing; of any other bot it returns
\* success=true and schedules exactly one task, the status left as it is; a
\* bot has never more trades than starts that returned success=true.
C7_Start ==
    /\ [][\A b \in BotIds :
            StartBot(bots[b].owner, b) =>
               IF bots[b].status = "running"
               THEN /\ resp'.op = "start_bot" /\ resp'.success = FALSE
                    /\ resp'.status = "running"
                    /\ UNCHANGED <<bots, sched, running, started, trades, portfolio>>
               ELSE /\ resp'.op = "start_bot" /\ resp'.success = TRUE
                    /\ sched' = [sched EXCEPT ![b] = sched[b] + 1]
                    /\ started' = [started EXCEPT ![b] = started[b] + 1]
                    /\ UNCHANGED <<bots, running, trades, portfolio>>]_vars
    /\ [][\A b \in BotIds :
            /\ sched'[b] + running'[b] > sched[b] + running[b] =>
                  StartBot(bots[b].owner, b) /\ resp'.success = TRUE
            /\ BotTradeCount(b)' > BotTradeCount(b) =>
                  /\ BotTradeCount(b)' = BotTradeCount(b) + 1
                  /\ running'[b] = running[b] - 1]_vars
    /\ [](\A b \in BotIds : BotTradeCount(b) + sched[b] + running[b] <= started[b])

\* a start of the running bot has been refused after its one trade
C7_Witness ==
    /\ resp.op = "start_bot" /\ resp.success = FALSE /\ bots[1].status = "running"
    /\ started[1] = 1 /\ BotTradeCount(1) = 1 /\ sched[1] = 0

\* C8: a stop by the owner of a stopped bot returns success=false and
\* changes nothing; of any other bot it leaves the status "stopped" and
\* returns success=true, whether or not a start task is pending.
C8_Stop ==
    [][\A b \in BotIds :
          StopBot(bots[b].owner, b) =>
             IF bots[b].status = "stopped"
             THEN /\ resp'.op = "stop_bot" /\ resp'.success = FALSE
                  /\ UNCHANGED <<bots, sched, running, started, trades, portfolio>>
             ELSE /\ resp'.op = "stop_bot" /\ resp'.success = TRUE
                  /\ bots'[b].status = "stopped"
                  /\ UNCHANGED <<sched, running, started, trades, portfolio>>]_vars

\* a stop has succeeded while a start task had still to place its trade
C8_Witness ==
    /\ resp.op = "stop_bot" /\ resp.success = TRUE /\ bots[1].status = "stopped"
    /\ running[1] > 0

\* C9: every Trade row has side buy or sell and type market or limit, and
\* every limit row has a price, whether an order submission or a bot task
\* stored it.
C9_TradeFields ==
    \A i \in 1..Len(trades) :
        /\ trades[i].side \in {"buy", "sell"}
        /\ trades[i].order_type \in {"market", "limit"}
        /\ trades[i].order_type = "limit" => trades[i].price # None

\* the submitted orders that a step turns "filled"
NewlyFilled ==
    {i \in 1..Len(trades') :
        /\ trades'[i].bot = NoBot /\ trades'[i].status = "filled"
        /\ (i > Len(trades) \/ trades[i].status # "filled")}

RECURSIVE NewlyFilledDelta(_, _, _)
NewlyFilledDelta(u, a, n) ==
    IF n = 0 THEN 0
    ELSE NewlyFilledDelta(u, a, n - 1)
         + (IF n \in NewlyFilled /\ trades'[n].user = u
            THEN SignedDelta(trades'[n], a) ELSE 0)

\* C10: the status "filled" and the two balance writes are committed
\* together: a step changes a balance by exactly the deltas of the orders it
\* turns "filled", so no committed state has a filled order without its two
\* legs, nor legs of an order still "open".
C10_FillAndLegsTogether ==
    [][\A u \in Users, a \in Assets :
          Balance(portfolio', u, a) =
             Balance(portfolio, u, a) + NewlyFilledDelta(u, a, Len(trades'))]_vars

\* a buy has been committed as filled with both legs while an earlier order
\* of the same user stays open
C10_Witness ==
    /\ Len(trades) = 2
    /\ trades[1].status = "open" /\ trades[1].order_type = "limit"
    /\ trades[2].status = "filled" /\ trades[2].side = "buy"
    /\ trades[2].symbol = ETH_BTC /\ trades[1].user = trades[2].user
    /\ Balance(portfolio, trades[2].user, <<"ETH">>) = 2
    /\ Balance(portfolio, trades[2].user, <<"BTC">>) = -4

C12_LostUpdate ==
    /\ [](\A r \in inflight : r.pc = "read" => ENABLED CreateOrderSettle(r))
    /\ [][\A r \in inflight :
            CreateOrderSettle(r) =>
               LET t == trades[r.tid]
                   parts == Split(t.symbol)
               IN /\ trades'[r.tid].status = "filled"
                  /\ r.base # 0 =>
                        portfolio'[r.base].balance = r.baseBal + SignedDelta(t, parts[1])
                  /\ r.quote # 0 =>
                        portfolio'[r.quote].balance = r.quoteBal + SignedDelta(t, parts[2])]_vars

\* after an order had created the rows, two buys of the same user were served
\* concurrently: all three are "filled", and the user's one BTC row holds
\* the deltas of two of them
C12_Witness ==
    /\ inflight = {} /\ Len(trades) = 3
    /\ \A i \in 1..3 :
          /\ trades[i].user = 1 /\ trades[i].symbol = BTC_USD
          /\ trades[i].side = "buy" /\ trades[i].status = "filled"
    /\ Cardinality(RowsOfAsset(portfolio, 1, <<"BTC">>)) = 1
    /\ FilledSum(1, <<"BTC">>, 3) = 6
    /\ Balance(portfolio, 1, <<"BTC">>) = 4

\* C13: a stop by the owner is served whether or not a start task is pending
\* and leaves the pending and running tasks as they are; while the status is
\* still "stopped" it returns success=false and changes nothing. A pending
\* task can always begin, whatever the status and the last request, and
\* leaves the status "running"; a task that has begun places its trade
\* whatever the status is by then.
C13_StopDoesNotCancel ==
    /\ [](\A b \in BotIds :
            /\ ENABLED StopBot(bots[b].owner, b)
            /\ sched[b] > 0 => ENABLED RunBotTaskBegin(b))
    /\ [][\A b \in BotIds :
            StopBot(bots[b].owner, b) =>
               /\ UNCHANGED <<sched, running, started, trades>>
               /\ (sched[b] > 0 /\ bots[b].status = "stopped") =>
                     /\ resp'.op = "stop_bot" /\ resp'.success = FALSE
                     /\ bots' = bots]_vars
    /\ [][\A b \in BotIds :
            /\ RunBotTaskBegin(b) =>
                  /\ bots'[b].status = "running"
                  /\ running'[b] = running[b] + 1
            /\ (RunBotTaskTrade(b) /\ Parses(bots[b].config) /\ HasMarketRow(b)) =>
                  /\ BotTradeCount(b)' = BotTradeCount(b) + 1
                  /\ bots'[b].status = bots[b].status]_vars

\* the last request was a stop, refused because the started task was still
\* pending; the task has since run: the bot is "running" and has traded
C13_Witness ==
    /\ resp.op = "stop_bot" /\ resp.code = 200 /\ resp.success = FALSE
    /\ started[1] = 1 /\ sched[1] = 0 /\ running[1] = 0
    /\ bots[1].status = "running"
    /\ BotTradeCount(1) = 1

\* C14: whatever the interleaving of order submissions, a user has at most
\* one Portfolio row for an asset.
C14_OneRowPerAsset ==
    \A u \in Users, a \in Assets : Cardinality(RowsOfAsset(portfolio, u, a)) <= 1
====
